---- MODULE Spec2Model ----
(***************************************************************************)
(* Model of ragavi (src/ragavi/ragavi.py): the legend batching and the     *)
(* client-side callbacks that main() wires to the rendered controls, and   *)
(* the part of main() that validates the options and finalizes the axes.   *)
(*                                                                         *)
(* SpecUI  : the rendered document and its four control callbacks.         *)
(* SpecRun : one run of main() from the parsed options to its end.         *)
(***************************************************************************)
EXTENDS FiniteSets, Integers, Sequences, TLC

(* ------------------------------ bounds -------------------------------- *)
\* largest number of plotted antennas in the rendered document
MaxAnts == 65

\* longest -a list of antenna IDs, and the largest ID it can name
MaxListLen == 2
MaxAntId == 3
\* most rows a per-antenna query returns
MaxRows == 2

(* ------------------------- program constants -------------------------- *)
BATCH_SIZE == 16
\* the x axis pad of lines 579-580
XPAD == 400
\* stands for the 1e20 of lines 411-416: larger than any value plotted
BIG == 1000000
\* finalized axis bounds are held in tenths, so that 0.9 and 1.1 are 9 and 11
SCALE == 10

VARIABLES
    \* --- the rendered document (SpecUI) ---
    plotants,              \* the antenna IDs plotted, in plotting order
    p1, p2,                \* visible bit of each antenna's data glyph, per panel
    p1_err, p2_err,        \* each antenna's error glyph, or NoGlyph
    batches_ax1, batches_ax2, batches_ax1_err, batches_ax2_err,
    loax1, loax2, loax1_err, loax2_err,   \* visible bit of each Legend object
    ant_select,            \* the select-all Toggle: [active, label]
    toggle_err,            \* the error-bar Toggle: [active, label]
    batch_select,          \* CheckboxGroup.active, a set of 0-based indices
    legend_toggle,         \* Select.value
    lastEvent,             \* the last control event handled, and how it ended
    \* --- one run of main() (SpecRun) ---
    pc,                    \* the place main() has reached
    doplot, mytab, corr,   \* options.doplot, args[0], options.corr
    ants,                  \* np.unique(tt.getcol('ANTENNA1'))
    opt_plotants,          \* options.plotants as given: [-1] or the -a list
    overrides,             \* the six axis options: [given, value] each
    ant_i,                 \* 0-based position of the per-antenna loop
    subtab,                \* rows of the current per-antenna query
    xmin, xmax, yumin, yumax, ylmin, ylmax,
    queries,               \* number of tt.query() calls so far
    transforms,            \* number of data_prep_* calls so far
    exit                   \* how the process ended: [code, msg], or Running

varsUI == <<plotants, p1, p2, p1_err, p2_err,
            batches_ax1, batches_ax2, batches_ax1_err, batches_ax2_err,
            loax1, loax2, loax1_err, loax2_err,
            ant_select, toggle_err, batch_select, legend_toggle, lastEvent>>

\* what main() builds once and the callbacks only read
built == <<plotants, batches_ax1, batches_ax2, batches_ax1_err, batches_ax2_err>>

varsRun == <<pc, doplot, mytab, corr, ants, opt_plotants, overrides, ant_i,
             subtab, xmin, xmax, yumin, yumax, ylmin, ylmax, queries,
             transforms, exit>>

\* the run variables apart from pc and exit
varsRunData == <<doplot, mytab, corr, ants, opt_plotants, overrides, ant_i,
                 subtab, xmin, xmax, yumin, yumax, ylmin, ylmax, queries,
                 transforms>>

vars == <<varsUI, varsRun>>

\* what errorbar() returns: a glyph with its visible bit, or None when
\* neither xerr nor yerr is given
ErrGlyph(visible) == <<visible>>
NoGlyph == <<>>

\* the process has not ended
Running == [code |-> 0, msg |-> "running"]

\* the six axis options t0, t1, yu0, yu1, yl0, yl1
Bounds == {"t0", "t1", "yu0", "yu1", "yl0", "yl1"}

(* --------------------------- small helpers ---------------------------- *)
Min(a, b) == IF a < b THEN a ELSE b

\* Python's list[a:b] for 0 <= a, on a 1-indexed TLA+ sequence
Slice(s, a, b) == SubSeq(s, a + 1, Min(b, Len(s)))

\* int(np.ceil(n / float(d)))
CeilDiv(n, d) == (n + d - 1) \div d

RECURSIVE Concat(_)
Concat(ss) == IF ss = <<>> THEN <<>> ELSE Head(ss) \o Concat(Tail(ss))

Abs(x) == IF x < 0 THEN -x ELSE x

(* -------------------------- determine_table ---------------------------- *)
\* table names are sequences of characters
Digits == {"0", "1", "2", "3", "4", "5", "6", "7", "8", "9"}

\* str.upper() on the characters the names are made of
Upper(c) ==
    CASE c = "g" -> "G" [] c = "k" -> "K" [] c = "b" -> "B"
      [] c = "t" -> "T" [] c = "m" -> "M" [] c = "s" -> "S" [] OTHER -> c

\* re.I makes the letter match in either case
MatchesAt(name, i) ==
    /\ name[i] = "."
    /\ i + 1 <= Len(name)
    /\ Upper(name[i + 1]) \in {"G", "K", "B"}
    /\ \A j \in (i + 2)..Len(name) : name[j] \in Digits

\* the integer -1 that determine_table returns when nothing matches; it is
\* not a string, and '".G" in -1' raises TypeError
NotFound == <<"int", "-1">>

\* lines 47-53: the text matched by \.(G|K|B)\d*$ upper-cased, or -1
determine_table(table_name) ==
    LET starts == { i \in 1..Len(table_name) : MatchesAt(table_name, i) }
    IN IF starts = {} THEN NotFound
       ELSE LET i == CHOOSE k \in starts : \A m \in starts : k <= m
            IN [j \in 1..(Len(table_name) - i + 1) |-> Upper(table_name[i + j - 1])]

\* Python's "sub in text" for two strings
Contains(sub, text) ==
    \E i \in 0..(Len(text) - Len(sub)) : SubSeq(text, i + 1, i + Len(sub)) = sub

(* --------------------- main(): antenna selection ----------------------- *)
\* list.remove(x): drops the first occurrence of x
RECURSIVE Remove(_, _)
Remove(list, x) ==
    IF list = <<>> THEN <<>>
    ELSE IF Head(list) = x THEN Tail(list)
         ELSE <<Head(list)>> \o Remove(Tail(list), x)

\* lines 371-374: "for ant in plotants" keeps a 0-based position i into the
\* very list the body removes from, so the element that slides into a
\* removed element's place is never visited
RECURSIVE ValidateFrom(_, _, _)
ValidateFrom(list, i, present) ==
    IF i >= Len(list) THEN list
    ELSE IF list[i + 1] \notin present
         THEN ValidateFrom(Remove(list, list[i + 1]), i + 1, present)
         ELSE ValidateFrom(list, i + 1, present)

ValidatedPlotants(list, present) == ValidateFrom(list, 0, present)

(* ------------------------- data_prep_G/B/K ----------------------------- *)
\* A row of a per-antenna query: the parameter at the two correlations is
\* (a, b) for a float parameter (FPARAM) and the complex number a + bi at the
\* selected correlation for a complex one (CPARAM); flag is the FLAG bit.
\* Complex parameters lie on one of the axes, so that modulus and phase are
\* whole numbers.
Modulus(row) == Abs(row.a) + Abs(row.b)

\* np.angle in degrees
AngleDeg(row) ==
    IF row.b = 0 THEN (IF row.a < 0 THEN 180 ELSE 0)
    ELSE IF row.b > 0 THEN 90 ELSE -90

\* np.unwrap, in degrees: a step of more than 180 is brought back by a
\* multiple of 360 and the correction carries to the rest of the series
UnwrapStep(prevIn, prevOut, cur) ==
    LET d == cur - prevIn
        dm == ((d + 180) % 360) - 180
        dc == IF dm = -180 /\ d > 0 THEN 180 ELSE dm
    IN IF Abs(d) < 180 THEN prevOut + d ELSE prevOut + dc

RECURSIVE UnwrapFrom(_, _, _)
UnwrapFrom(phases, i, out) ==
    IF i > Len(phases) THEN out
    ELSE UnwrapFrom(phases, i + 1,
                    Append(out, UnwrapStep(phases[i - 1], out[i - 1], phases[i])))

Unwrap(phases) ==
    IF phases = <<>> THEN <<>> ELSE UnwrapFrom(phases, 2, <<phases[1]>>)

\* An output series is a sequence of [v, masked]: numpy masked arrays keep
\* every element and carry the flag as the mask; np.array() and np.unwrap()
\* return plain arrays, whose elements are all unmasked.
Masked(rows, values) ==
    [i \in 1..Len(rows) |-> [v |-> values[i], masked |-> rows[i].flag]]

Plain(values) ==
    [i \in 1..Len(values) |-> [v |-> values[i], masked |-> FALSE]]

Re(rows) == [i \in 1..Len(rows) |-> rows[i].a]
Im(rows) == [i \in 1..Len(rows) |-> rows[i].b]
Amplitudes(rows) == [i \in 1..Len(rows) |-> Modulus(rows[i])]
Phases(rows) == [i \in 1..Len(rows) |-> AngleDeg(rows[i])]

\* lines 181-195 (and 219-232 for y1, y2): data_prep_G and data_prep_B
data_prep_G(rows, plotmode) ==
    IF plotmode = "ap"
    THEN [y1 |-> Masked(rows, Amplitudes(rows)),
          y2 |-> Plain(Unwrap(Phases(rows)))]
    ELSE [y1 |-> Masked(rows, Re(rows)), y2 |-> Masked(rows, Im(rows))]

data_prep_B(rows, plotmode) ==
    IF plotmode = "ap"
    THEN [y1 |-> Masked(rows, Amplitudes(rows)),
          y2 |-> Plain(Unwrap(Phases(rows)))]
    ELSE [y1 |-> Masked(rows, Re(rows)), y2 |-> Masked(rows, Im(rows))]

\* lines 253-260: np.array() of the two correlations
data_prep_K(rows, c) ==
    [y1 |-> Plain([i \in 1..Len(rows) |-> IF c = 0 THEN rows[i].a ELSE rows[i].b]),
     y2 |-> Plain([i \in 1..Len(rows) |-> IF c = 0 THEN rows[i].b ELSE rows[i].a])]

(* ------------------- main(): the per-antenna glyphs -------------------- *)
\* lines 543-545: every antenna but ID 0 starts hidden
InitialVisible(ant) == ~(ant > 0)

\* lines 549-553: the four legend item lists, one (label, [glyph]) per
\* antenna.  An item is <<ant, r>>: the antenna ID its label is made of
\* (prefix "A" or "E") and the rank r of its glyph among the glyphs
\* of its kind and panel (p1, p2, p1_err or p2_err).
LegendItems(pl, prefix, glyph) ==
    [r \in 1..Len(pl) |-> <<pl[r], r>>]

(* ----------------------- main(): legend batching ----------------------- *)
num_legend_objs(n) == CeilDiv(n, BATCH_SIZE)

\* the slices stop one item short
Batches_ShortSlice(items) ==
    [b \in 1..num_legend_objs(Len(items)) |->
        Slice(items, (b - 1) * BATCH_SIZE, (b - 1) * BATCH_SIZE + BATCH_SIZE - 1)]

\* lines 634-648: batch i is legend_items[j:j+BATCH_SIZE] with j = i*BATCH_SIZE
\* (the branch "i == num_legend_objs" is never taken inside range())
Batches(items) ==
    [b \in 1..num_legend_objs(Len(items)) |->
        Slice(items, (b - 1) * BATCH_SIZE, (b - 1) * BATCH_SIZE + BATCH_SIZE)]

\* lines 549-553: the legend item lists main() builds from plotants
legend_items_ax1 == LegendItems(plotants, "A", "p1")
legend_items_ax2 == LegendItems(plotants, "A", "p2")
legend_items_err_ax1 == LegendItems(plotants, "E", "p1_err")
legend_items_err_ax2 == LegendItems(plotants, "E", "p2_err")

(* ------------------------- the rendered document ----------------------- *)
\* the antenna orders the document is rendered for: the table's antennas in
\* ascending order (line 381, with and without antenna 0), and a user list
\* in descending order (line 379, orders follow the list as given)
PlotantsOf(n) ==
    { [r \in 1..n |-> r - 1], [r \in 1..n |-> r], [r \in 1..n |-> n - r] }

\* the antenna counts rendered: one antenna, a partial second batch (the 20
\* antennas of the spec's scenario), four full batches, and MaxAnts
AntCounts == {1, BATCH_SIZE + 4, 4 * BATCH_SIZE, MaxAnts}

\* the state of the run variables once main() has rendered
RunIsOver ==
    /\ pc = "rendered"
    /\ doplot = "ap"
    /\ mytab = <<"t", ".", "G">>
    /\ corr = 0
    /\ ants = {}
    /\ opt_plotants = <<-1>>
    /\ overrides = [b \in Bounds |-> [given |-> FALSE, value |-> -1]]
    /\ ant_i = 0
    /\ subtab = <<>>
    /\ xmin = 0 /\ xmax = 0 /\ yumin = 0 /\ yumax = 0 /\ ylmin = 0 /\ ylmax = 0
    /\ queries = 0
    /\ transforms = 0
    /\ exit = Running

\* lines 543-553 and 620-704: the glyphs, batches, legends and controls of
\* the document laid out for the antenna list pl.  The data legends start
\* visible and the error legends hidden (lines 661-664); make_plots() is
\* called without y2_err, so the lower panel has no error glyph.
Document(pl) ==
    [p1 |-> [r \in 1..Len(pl) |-> InitialVisible(pl[r])],
     p2 |-> [r \in 1..Len(pl) |-> InitialVisible(pl[r])],
     p1_err |-> [r \in 1..Len(pl) |-> ErrGlyph(FALSE)],
     p2_err |-> [r \in 1..Len(pl) |-> NoGlyph],
     batches_ax1 |-> Batches(LegendItems(pl, "A", "p1")),
     batches_ax2 |-> Batches(LegendItems(pl, "A", "p2")),
     batches_ax1_err |-> Batches(LegendItems(pl, "E", "p1_err")),
     batches_ax2_err |-> Batches(LegendItems(pl, "E", "p2_err")),
     loax1 |-> [i \in 1..num_legend_objs(Len(pl)) |-> TRUE],
     loax2 |-> [i \in 1..num_legend_objs(Len(pl)) |-> TRUE],
     loax1_err |-> [i \in 1..num_legend_objs(Len(pl)) |-> FALSE],
     loax2_err |-> [i \in 1..num_legend_objs(Len(pl)) |-> FALSE],
     ant_select |-> [active |-> FALSE, label |-> "Select All Antennas"],
     toggle_err |-> [active |-> FALSE, label |-> "Show All Error bars"],
     batch_select |-> {},
     legend_toggle |-> "alo"]

\* the document before anything is plotted
NoDocument == Document(<<>>)

IsDocument(d) ==
    /\ p1 = d.p1 /\ p2 = d.p2 /\ p1_err = d.p1_err /\ p2_err = d.p2_err
    /\ batches_ax1 = d.batches_ax1 /\ batches_ax2 = d.batches_ax2
    /\ batches_ax1_err = d.batches_ax1_err
    /\ batches_ax2_err = d.batches_ax2_err
    /\ loax1 = d.loax1 /\ loax2 = d.loax2
    /\ loax1_err = d.loax1_err /\ loax2_err = d.loax2_err
    /\ ant_select = d.ant_select /\ toggle_err = d.toggle_err
    /\ batch_select = d.batch_select /\ legend_toggle = d.legend_toggle

InitUI ==
    /\ \E n \in AntCounts : plotants \in PlotantsOf(n)
    /\ IsDocument(Document(plotants))
    /\ lastEvent = [type |-> "render", arg |-> 0, threw |-> FALSE]
    /\ RunIsOver

(* ------------------------ ant_select.callback -------------------------- *)
\* lines 706-733: every glyph of legend_items_ax1/ax2 gets this.active, and
\* the checkbox group gets the literal list [0,1,2,3] or []
AntSelectBoxes(active) == IF active THEN {0, 1, 2, 3} ELSE {}

AntSelectLabel(active) ==
    IF active THEN "Deselect all Antennas" ELSE "Select all Antennas"

AntSelectClick ==
    LET active == ~ant_select.active
    IN /\ ant_select' = [active |-> active, label |-> AntSelectLabel(active)]
       /\ p1' = [r \in DOMAIN p1 |-> active]
       /\ p2' = [r \in DOMAIN p2 |-> active]
       /\ batch_select' = AntSelectBoxes(active)
       /\ lastEvent' = [type |-> "ant_select", arg |-> 0, threw |-> FALSE]
       /\ UNCHANGED <<built, varsRun, p1_err, p2_err, loax1, loax2, loax1_err,
                      loax2_err, toggle_err, legend_toggle>>

(* ------------------------ toggle_err.callback -------------------------- *)
\* lines 737-766: err1[i] always, err2[i] only where a glyph exists
SetErr(errs, v) ==
    [r \in DOMAIN errs |-> IF errs[r] = NoGlyph THEN NoGlyph ELSE ErrGlyph(v)]

ToggleErrLabel(active) ==
    IF active THEN "Hide All Error bars" ELSE "Show All Error bars"

\* the error glyph follows the toggle only where the data glyph is shown
ToggleErrClick_VisibleOnly ==
    LET active == ~toggle_err.active
    IN /\ toggle_err' = [active |-> active, label |-> ToggleErrLabel(active)]
       /\ p1_err' = [r \in DOMAIN p1_err |-> IF p1[r] THEN ErrGlyph(active) ELSE p1_err[r]]
       /\ p2_err' = SetErr(p2_err, active)
       /\ lastEvent' = [type |-> "toggle_err", arg |-> 0, threw |-> FALSE]
       /\ UNCHANGED <<built, varsRun, p1, p2, loax1, loax2, loax1_err, loax2_err,
                      ant_select, batch_select, legend_toggle>>

ToggleErrClick ==
    LET active == ~toggle_err.active
    IN /\ toggle_err' = [active |-> active, label |-> ToggleErrLabel(active)]
       /\ p1_err' = [r \in DOMAIN p1_err |-> ErrGlyph(active)]
       /\ p2_err' = SetErr(p2_err, active)
       /\ lastEvent' = [type |-> "toggle_err", arg |-> 0, threw |-> FALSE]
       /\ UNCHANGED <<built, varsRun, p1, p2, loax1, loax2, loax1_err, loax2_err,
                      ant_select, batch_select, legend_toggle>>

(* ----------------------- legend_toggle.callback ------------------------ *)
LegendModes == {"all", "alo", "elo", "non"}

\* lines 847-899, the four if-statements in the order they run
\* the "all" block is missing
LegendDataVisible_NoAll(value) == (value = "alo")

LegendDataVisible(value) ==
    LET a == (value = "alo")
        b == IF value = "all" THEN TRUE ELSE a
    IN IF value = "non" THEN FALSE ELSE b

LegendErrVisible(value) ==
    LET a == (value = "elo")
        b == IF value = "all" THEN TRUE ELSE a
    IN IF value = "non" THEN FALSE ELSE b

LegendToggleChange(value) ==
    /\ value # legend_toggle
    /\ legend_toggle' = value
    /\ loax1' = [i \in DOMAIN loax1 |-> LegendDataVisible(value)]
    /\ loax2' = [i \in DOMAIN loax1 |-> LegendDataVisible(value)]
    /\ loax1_err' = [i \in DOMAIN loax1 |-> LegendErrVisible(value)]
    /\ loax2_err' = [i \in DOMAIN loax1 |-> LegendErrVisible(value)]
    /\ lastEvent' = [type |-> "legend_toggle", arg |-> 0, threw |-> FALSE]
    /\ UNCHANGED <<built, varsRun, p1, p2, p1_err, p2_err, ant_select,
                   toggle_err, batch_select>>

(* ----------------------- batch_select.callback ------------------------- *)
\* glyph ranks named by the items of one batch
Glyphs(batch) == { batch[i][2] : i \in DOMAIN batch }

\* every glyph of the batch gets the bit v (F only names the set of the
\* batch's glyphs, so that it is worked out once)
SetVisible(vis, batch, v) ==
    LET F[g \in {Glyphs(batch)}] ==
            [r \in DOMAIN vis |-> IF r \in g THEN v ELSE vis[r]]
    IN F[Glyphs(batch)]

\* a block that sets the upper panel's glyphs and leaves the lower panel's
BatchBlock_UpperOnly(st, b, active) ==
    IF st.threw THEN st
    ELSE LET exists == b < Len(batches_ax1)
             len0 == Len(batches_ax1[1])
             lenb == IF exists THEN Len(batches_ax1[b + 1]) ELSE 0
         IN [p1 |-> IF exists THEN SetVisible(st.p1, batches_ax1[b + 1], b \in active)
                    ELSE st.p1,
             p2 |-> st.p2,
             threw |-> lenb < len0]

\* lines 780-830: one of the four literal if/else blocks, for batch index b.
\* Its loop is "while i < bax1[j].length" with j left at 0, so i runs over
\* batch 0's length whatever b is: bax1[b][i] is undefined, and the callback
\* throws a TypeError, when batch b is missing or shorter than batch 0.  The
\* glyphs reached before that keep their new bit.
BatchBlock(st, b, active) ==
    IF st.threw THEN st
    ELSE LET exists == b < Len(batches_ax1)
             len0 == Len(batches_ax1[1])
             lenb == IF exists THEN Len(batches_ax1[b + 1]) ELSE 0
         IN [p1 |-> IF exists THEN SetVisible(st.p1, batches_ax1[b + 1], b \in active)
                    ELSE st.p1,
             p2 |-> IF exists THEN SetVisible(st.p2, batches_ax2[b + 1], b \in active)
                    ELSE st.p2,
             threw |-> lenb < len0]

\* lines 834-839: the select-all toggle follows only the lengths 4 and 0
AntselAfter(antsel, active) ==
    IF Cardinality(active) = 4
    THEN [active |-> TRUE, label |-> "Deselect all Antennas"]
    ELSE IF Cardinality(active) = 0
         THEN [active |-> FALSE, label |-> "Select all Antennas"]
         ELSE antsel

\* The CheckboxGroup widget sets .active from the click before it runs the
\* callback.  Depending on the widget's version the indices left by
\* ant_select that name no checkbox are kept or dropped at that point.
ClickedActive(b, keep) ==
    LET base == IF keep THEN batch_select
                ELSE batch_select \cap (0..(num_legend_objs(Len(plotants)) - 1))
    IN IF b \in base THEN base \ {b} ELSE base \cup {b}

\* lines 777-839: the four blocks in order, then the select-all toggle,
\* which a TypeError thrown on the way leaves as it was
BatchSelectClick(b, keep) ==
    \E active \in {ClickedActive(b, keep)} :
    \E s1 \in {BatchBlock([p1 |-> p1, p2 |-> p2, threw |-> FALSE], 0, active)} :
    \E s2 \in {BatchBlock(s1, 1, active)} :
    \E s3 \in {BatchBlock(s2, 2, active)} :
    \E s4 \in {BatchBlock(s3, 3, active)} :
       /\ batch_select' = active
       /\ p1' = s4.p1
       /\ p2' = s4.p2
       /\ ant_select' = IF s4.threw THEN ant_select
                        ELSE AntselAfter(ant_select, active)
       /\ lastEvent' = [type |-> "batch_select", arg |-> b, threw |-> s4.threw]
       /\ UNCHANGED <<built, varsRun, p1_err, p2_err, loax1, loax2, loax1_err,
                      loax2_err, toggle_err, legend_toggle>>

BatchSelectEvent ==
    \E b \in 0..(num_legend_objs(Len(plotants)) - 1), keep \in BOOLEAN : BatchSelectClick(b, keep)

LegendToggleEvent == \E value \in LegendModes : LegendToggleChange(value)

NextUI ==
    \/ AntSelectClick
    \/ BatchSelectEvent
    \/ ToggleErrClick
    \/ LegendToggleEvent

SpecUI == InitUI /\ [][NextUI]_vars

(* ============================ one run of main() ======================== *)
Doplots == {"ap", "ri", "xx"}

TableNames ==
    { <<"t", ".", "G">>, <<"t", ".", "b", "1">>, <<"t", ".", "K">>,
      <<"t", ".", "k", "0">>, <<"t", ".", "m", "s">> }

\* the antennas of the table
TableAnts == {0, 1}

\* ascending order of a set of antenna IDs, as np.unique returns it
RECURSIVE Sorted(_)
Sorted(set) ==
    IF set = {} THEN <<>>
    ELSE LET m == CHOOSE x \in set : \A y \in set : x <= y
         IN <<m>> \o Sorted(set \ {m})

\* the -a lists: every list of 1..MaxListLen IDs
AntLists ==
    UNION { [1..n -> 0..MaxAntId] : n \in 1..MaxListLen }

\* the parameter values of a row
Params == { <<3, 0>>, <<0, -2>>, <<-2, 0>> }
\* the results of a query for an antenna the table has: 1..MaxRows rows,
\* TIME ascending
SubTabs ==
    UNION { { [i \in 1..n |-> [t |-> 50 + 5 * (i - 1),
                                a |-> c[i][1][1], b |-> c[i][1][2],
                                flag |-> c[i][2]]]
              : c \in [1..n -> Params \X BOOLEAN] } : n \in 1..MaxRows }

\* the values given to the axis options
OverrideValues == {-1, 7}

NotGiven == [given |-> FALSE, value |-> -1]

\* the axis options of a run: none, all six, or any single one, given
OverrideChoices ==
    { [b \in Bounds |-> NotGiven] }
      \cup { [b \in Bounds |-> [given |-> TRUE, value |-> v]] : v \in OverrideValues }
      \cup { [b \in Bounds |-> IF b = c THEN [given |-> TRUE, value |-> v] ELSE NotGiven]
             : c \in Bounds, v \in OverrideValues }

InitRun ==
    /\ pc = "start"
    /\ doplot \in Doplots
    /\ mytab \in TableNames
    /\ corr \in {0, 1}
    /\ ants = TableAnts
    /\ opt_plotants = <<-1>>
    /\ overrides = [b \in Bounds |-> NotGiven]
    /\ plotants = <<-1>>
    /\ ant_i = 0
    /\ subtab = <<>>
    /\ xmin = BIG /\ xmax = -BIG
    /\ ylmin = BIG /\ ylmax = -BIG
    /\ yumin = BIG /\ yumax = -BIG
    /\ queries = 0
    /\ transforms = 0
    /\ exit = Running
    /\ IsDocument(NoDocument)
    /\ lastEvent = [type |-> "none", arg |-> 0, threw |-> FALSE]

Exit(code, msg) ==
    /\ pc' = "exit"
    /\ exit' = [code |-> code, msg |-> msg]

\* lines 341-343
CheckDoplot ==
    /\ pc = "start"
    /\ IF doplot \notin {"ap", "ri"}
       THEN Exit(-1, "Plot selection must be either ap or ri")
       ELSE pc' = "open" /\ UNCHANGED exit
    /\ UNCHANGED <<varsUI, doplot, mytab, corr, ants, opt_plotants, overrides,
                   ant_i, subtab, xmin, xmax, yumin, yumax, ylmin, ylmax,
                   queries, transforms>>

\* lines 351-365: the table is opened and the field looked up in FIELD_ID
OpenTable(field_found) ==
    /\ pc = "open"
    /\ IF ~field_found
       THEN Exit(-1, "Field ID not found")
       ELSE pc' = "select" /\ UNCHANGED exit
    /\ UNCHANGED <<varsUI, doplot, mytab, corr, ants, opt_plotants, overrides,
                   ant_i, subtab, xmin, xmax, yumin, yumax, ylmin, ylmax,
                   queries, transforms>>

\* lines 367-381
SelectAntennas(opt) ==
    /\ pc = "select"
    /\ opt_plotants' = opt
    /\ IF opt[1] # -1
       THEN LET kept == ValidatedPlotants(opt, ants)
            IN IF Len(kept) = 0
               THEN /\ Exit(-1, "No valid antennas have been requested")
                    /\ plotants' = kept
               ELSE /\ plotants' = kept
                    /\ pc' = "loop"
                    /\ UNCHANGED exit
       ELSE /\ plotants' = Sorted(ants)
            /\ pc' = "loop"
            /\ UNCHANGED exit
    /\ UNCHANGED <<p1, p2, p1_err, p2_err, batches_ax1, batches_ax2,
                   batches_ax1_err, batches_ax2_err, loax1, loax2, loax1_err,
                   loax2_err, ant_select, toggle_err, batch_select,
                   legend_toggle, lastEvent, doplot, mytab, corr, ants,
                   overrides, ant_i, subtab, xmin, xmax, yumin, yumax, ylmin,
                   ylmax, queries, transforms>>

\* lines 421-450: the query for the next antenna and its column reads;
\* times[0] of an empty result raises IndexError
QueryAntenna(rows) ==
    /\ pc = "loop"
    /\ ant_i < Len(plotants)
    /\ IF plotants[ant_i + 1] \in ants THEN rows \in SubTabs ELSE rows = <<>>
    /\ queries' = queries + 1
    /\ subtab' = rows
    /\ IF rows = <<>>
       THEN Exit(1, "IndexError")
       ELSE pc' = "plot" /\ UNCHANGED exit
    /\ UNCHANGED <<varsUI, doplot, mytab, corr, ants, opt_plotants, overrides,
                   ant_i, xmin, xmax, yumin, yumax, ylmin, ylmax, transforms>>

\* np.min / np.max of a series: over the unmasked elements
Unmasked(series) == { series[i].v : i \in { j \in DOMAIN series : ~series[j].masked } }
MinOf(set) == CHOOSE x \in set : \A y \in set : x <= y
MaxOf(set) == CHOOSE x \in set : \A y \in set : x >= y

\* lines 564-575, one pair of ifs: a fully masked series compares as masked,
\* which is false, and leaves the extent as it is
FoldMin(cur, set) == IF set # {} /\ MinOf(set) < cur THEN MinOf(set) ELSE cur
FoldMax(cur, set) == IF set # {} /\ MaxOf(set) > cur THEN MaxOf(set) ELSE cur

\* line 446 with its second copy at 506-507: times relative to the first row
Times(rows) == { rows[i].t - rows[1].t : i \in DOMAIN rows }

\* lines 454-541: the transform chosen by doplot and the table kind
Transform(kind, plotmode, rows, c) ==
    IF Contains(<<".", "G">>, kind) THEN data_prep_G(rows, plotmode)
    ELSE IF Contains(<<".", "B">>, kind) THEN data_prep_B(rows, plotmode)
    ELSE data_prep_K(rows, c)

\* lines 454-575: transform, plot, subtab.close() and fold for the antenna
\* just queried.
\* '".G" in -1' raises TypeError before "Invalid table" can be printed, and
\* sys.exit() without an argument ends the process with status 0
PlotAntenna ==
    /\ pc = "plot"
    /\ LET kind == determine_table(mytab)
       IN IF kind = NotFound
          THEN /\ Exit(1, "TypeError")
               /\ UNCHANGED <<ant_i, subtab, xmin, xmax, yumin, yumax, ylmin,
                              ylmax, transforms>>
          ELSE IF doplot = "ri" /\ ~Contains(<<".", "G">>, kind)
                  /\ ~Contains(<<".", "B">>, kind)
               THEN /\ Exit(0, "No complex values to plot")
                    /\ UNCHANGED <<ant_i, subtab, xmin, xmax, yumin, yumax,
                                   ylmin, ylmax, transforms>>
               ELSE LET y == Transform(kind, doplot, subtab, corr)
                    IN /\ transforms' = transforms + 1
                       /\ xmin' = FoldMin(xmin, Times(subtab))
                       /\ xmax' = FoldMax(xmax, Times(subtab))
                       /\ yumin' = FoldMin(yumin, Unmasked(y.y1))
                       /\ yumax' = FoldMax(yumax, Unmasked(y.y1))
                       /\ ylmin' = FoldMin(ylmin, Unmasked(y.y2))
                       /\ ylmax' = FoldMax(ylmax, Unmasked(y.y2))
                       /\ subtab' = <<>>
                       /\ ant_i' = ant_i + 1
                       /\ pc' = "loop"
                       /\ UNCHANGED exit
    /\ UNCHANGED <<varsUI, doplot, mytab, corr, ants, opt_plotants, overrides,
                   queries>>

\* lines 584-593, in tenths: 1.1 times a negative minimum, 0.9 times any other
PadMin(v) == IF v < 0 THEN -1 * (11 * Abs(v)) ELSE v * 9
PadMax(v) == v * 11

\* lines 595-606: an option replaces the bound unless its value is -1
Override(computed, option) ==
    IF option.value # -1 THEN SCALE * option.value ELSE computed

\* lines 579-611
Finalize(opts) ==
    /\ pc = "loop"
    /\ ant_i = Len(plotants)
    /\ overrides' = opts
    /\ xmin' = Override(SCALE * (xmin - XPAD), opts["t0"])
    /\ xmax' = Override(SCALE * (xmax + XPAD), opts["t1"])
    /\ ylmin' = Override(PadMin(ylmin), opts["yl0"])
    /\ ylmax' = Override(PadMax(ylmax), opts["yl1"])
    /\ yumin' = Override(PadMin(yumin), opts["yu0"])
    /\ yumax' = Override(PadMax(yumax), opts["yu1"])
    /\ pc' = "finalized"
    /\ UNCHANGED <<varsUI, doplot, mytab, corr, ants, opt_plotants, ant_i,
                   subtab, queries, transforms, exit>>

\* lines 614-908: batches, legends and controls are laid out
Layout ==
    /\ pc = "finalized"
    /\ LET d == Document(plotants)
       IN /\ p1' = d.p1 /\ p2' = d.p2
          /\ p1_err' = d.p1_err /\ p2_err' = d.p2_err
          /\ batches_ax1' = d.batches_ax1 /\ batches_ax2' = d.batches_ax2
          /\ batches_ax1_err' = d.batches_ax1_err
          /\ batches_ax2_err' = d.batches_ax2_err
          /\ loax1' = d.loax1 /\ loax2' = d.loax2
          /\ loax1_err' = d.loax1_err /\ loax2_err' = d.loax2_err
          /\ ant_select' = d.ant_select /\ toggle_err' = d.toggle_err
          /\ batch_select' = d.batch_select
          /\ legend_toggle' = d.legend_toggle
    /\ lastEvent' = [type |-> "render", arg |-> 0, threw |-> FALSE]
    /\ pc' = "laid_out"
    /\ UNCHANGED <<plotants, varsRunData, exit>>

\* lines 914-922: pngname is never empty here, so every data glyph is made
\* visible for the image export, and the run ends
Export ==
    /\ pc = "laid_out"
    /\ p1' = [r \in DOMAIN p1 |-> TRUE]
    /\ p2' = [r \in DOMAIN p2 |-> TRUE]
    /\ pc' = "rendered"
    /\ exit' = [code |-> 0, msg |-> "Rendered"]
    /\ UNCHANGED <<built, p1_err, p2_err, loax1, loax2, loax1_err, loax2_err,
                   ant_select, toggle_err, batch_select, legend_toggle,
                   lastEvent, varsRunData>>

OpenTableStep == \E field_found \in BOOLEAN : OpenTable(field_found)
SelectAntennasStep == \E opt \in {<<-1>>} \cup AntLists : SelectAntennas(opt)
QueryAntennaStep == \E rows \in {<<>>} \cup SubTabs : QueryAntenna(rows)
FinalizeStep == \E opts \in OverrideChoices : Finalize(opts)

NextRun ==
    \/ CheckDoplot
    \/ OpenTableStep
    \/ SelectAntennasStep
    \/ QueryAntennaStep
    \/ PlotAntenna
    \/ FinalizeStep
    \/ Layout
    \/ Export

SpecRun == InitRun /\ [][NextRun]_vars

(* =============================== claims ================================ *)
\* number of batch checkboxes of the rendered document
NumBoxes == num_legend_objs(Len(plotants))

\* the active bit of batch checkbox b
BoxActive(b) == b \in batch_select

AllBoxesActive == \A b \in 0..(NumBoxes - 1) : BoxActive(b)

\* the ranks of the antennas whose legend items are in batch b
InBatch(b) == Glyphs(batches_ax1[b + 1])

\* C1: after every event the select-all toggle is active exactly when all
\* the batch checkboxes are active.
C1_SelectAllIsAndOfBoxes ==
    pc = "rendered" => (ant_select.active <=> AllBoxesActive)

\* C2: a select-all event with new value v leaves every data glyph of both
\* panels at v and the checkbox group with exactly the existing checkboxes
\* active when v is true, and none when v is false.
C2_SelectAllSetsGlyphsAndBoxes ==
    lastEvent.type = "ant_select" =>
        /\ \A r \in DOMAIN p1 : p1[r] = ant_select.active /\ p2[r] = ant_select.active
        /\ batch_select = (IF ant_select.active THEN 0..(NumBoxes - 1) ELSE {})

\* C3: a click on batch checkbox b completes, sets the data glyphs of batch b
\* on both panels to the checkbox's new state and leaves the data glyphs of
\* every other batch as they were.
C3_BatchClickSetsOnlyItsBatch ==
    [][(lastEvent'.type = "batch_select" /\ batch_select' # batch_select) =>
         LET b == lastEvent'.arg
         IN /\ ~lastEvent'.threw
            /\ \A r \in DOMAIN p1 :
                 IF r \in InBatch(b)
                 THEN p1'[r] = (b \in batch_select') /\ p2'[r] = (b \in batch_select')
                 ELSE p1'[r] = p1[r] /\ p2'[r] = p2[r]]_vars

\* C4: an error-bar toggle event with new value v sets every existing error
\* glyph of both panels to v, whatever the visibility of the antenna's data
\* glyph, and changes no data glyph, checkbox, select-all state or legend.
C4_ErrorToggleIsOrthogonal ==
    [][(lastEvent'.type = "toggle_err" /\ toggle_err' # toggle_err) =>
         /\ \A r \in DOMAIN p1_err :
              /\ p1_err[r] # NoGlyph => p1_err'[r] = ErrGlyph(toggle_err'.active)
              /\ p2_err[r] # NoGlyph => p2_err'[r] = ErrGlyph(toggle_err'.active)
              /\ (p1_err[r] = NoGlyph) = (p1_err'[r] = NoGlyph)
              /\ (p2_err[r] = NoGlyph) = (p2_err'[r] = NoGlyph)
         /\ p1' = p1 /\ p2' = p2
         /\ batch_select' = batch_select
         /\ ant_select' = ant_select
         /\ loax1' = loax1 /\ loax2' = loax2
         /\ loax1_err' = loax1_err /\ loax2_err' = loax2_err]_vars

\* C4 witness: the error toggle has shown the error glyph of an antenna whose
\* data glyph is hidden.
C4_Witness ==
    /\ lastEvent.type = "toggle_err"
    /\ toggle_err.active
    /\ \E r \in DOMAIN p1 : ~p1[r] /\ p1_err[r] = ErrGlyph(TRUE)

\* the legend visibility each display mode stands for: <<data, error>>
ModeShows(value) ==
    CASE value = "all" -> <<TRUE, TRUE>>
      [] value = "alo" -> <<TRUE, FALSE>>
      [] value = "elo" -> <<FALSE, TRUE>>
      [] value = "non" -> <<FALSE, FALSE>>

\* C5: after a legend-display-mode change every batch's data and error
\* legends, on both panels, are shown or hidden as the new mode alone says,
\* and no data or error glyph has changed its visibility.
C5_LegendModeSetsLegendsOnly ==
    [][(lastEvent'.type = "legend_toggle" /\ legend_toggle' # legend_toggle) =>
         /\ DOMAIN loax1' = 1..NumBoxes /\ DOMAIN loax2' = 1..NumBoxes
         /\ DOMAIN loax1_err' = 1..NumBoxes /\ DOMAIN loax2_err' = 1..NumBoxes
         /\ \A i \in 1..NumBoxes :
              /\ loax1'[i] = ModeShows(legend_toggle')[1]
              /\ loax2'[i] = ModeShows(legend_toggle')[1]
              /\ loax1_err'[i] = ModeShows(legend_toggle')[2]
              /\ loax2_err'[i] = ModeShows(legend_toggle')[2]
         /\ p1' = p1 /\ p2' = p2 /\ p1_err' = p1_err /\ p2_err' = p2_err]_vars

\* C5 witness: with two or more batches, mode "all" has been selected after
\* the data legends had been hidden.
C5_Witness ==
    /\ lastEvent.type = "legend_toggle"
    /\ legend_toggle = "all"
    /\ NumBoxes >= 2
    /\ \A i \in 1..NumBoxes : loax1[i] /\ loax2[i] /\ loax1_err[i] /\ loax2_err[i]
    /\ \E r \in DOMAIN p1 : ~p1[r]

\* the items of list "items" that belong in batch i (0-based), by rank
RanksOfBatch(i, n) ==
    { r \in 1..n : BATCH_SIZE * i < r /\ r <= Min(BATCH_SIZE * (i + 1), n) }

IsBatchingOf(batches, items) ==
    LET n == Len(items)
    IN /\ Len(batches) = CeilDiv(n, BATCH_SIZE)
       /\ \A i \in 0..(Len(batches) - 1) :
            /\ Len(batches[i + 1]) = Cardinality(RanksOfBatch(i, n))
            /\ \A j \in 1..Len(batches[i + 1]) :
                 batches[i + 1][j] = items[BATCH_SIZE * i + j]
       /\ \A r \in 1..n :
            Cardinality({ i \in 1..Len(batches) :
                            \E j \in 1..Len(batches[i]) : batches[i][j] = items[r] }) = 1
       /\ Concat(batches) = items

\* C6: the rendered document has ceil(n/16) batches, batch i holds the items
\* at ranks [16i, min(16(i+1), n)), every antenna is in exactly one batch and
\* the batches concatenated in order give back the item list; for the data
\* and the error lists of both panels.
C6_BatchesPartitionInOrder ==
    (pc = "rendered" /\ lastEvent.type = "render") =>
        /\ IsBatchingOf(batches_ax1, legend_items_ax1)
        /\ IsBatchingOf(batches_ax2, legend_items_ax2)
        /\ IsBatchingOf(batches_ax1_err, legend_items_err_ax1)
        /\ IsBatchingOf(batches_ax2_err, legend_items_err_ax2)

\* C6 witness: 20 antennas rendered in two batches of 16 and 4.
C6_Witness ==
    /\ pc = "rendered"
    /\ lastEvent.type = "render"
    /\ Len(plotants) = 20
    /\ Len(batches_ax1) = 2
    /\ Len(batches_ax1[1]) = 16
    /\ Len(batches_ax1[2]) = 4

\* an explicit -a list has been read and names no antenna of the table
NoValidAntennaRequested ==
    /\ pc # "start" /\ pc # "open" /\ pc # "select"
    /\ opt_plotants[1] # -1
    /\ \A i \in DOMAIN opt_plotants : opt_plotants[i] \notin ants

\* C7: an explicit antenna list naming no antenna of the table ends the run
\* at the selection check and never reaches the per-antenna loop.
C7_EmptySelectionIsFatal ==
    NoValidAntennaRequested =>
        /\ pc = "exit"
        /\ exit.msg = "No valid antennas have been requested"
        /\ queries = 0

\* the table is a delay (K) table
IsDelayTable ==
    determine_table(mytab) # NotFound
        /\ Contains(<<".", "K">>, determine_table(mytab))

\* C8: a run with doplot ri on a K table issues no per-antenna query and
\* runs no transform.
C8_RiOnDelayAbortsBeforeQuery ==
    (doplot = "ri" /\ IsDelayTable) => (queries = 0 /\ transforms = 0)

\* the messages of the four fatal conditions
FatalMsgs ==
    { "TypeError", "No complex values to plot", "Field ID not found",
      "No valid antennas have been requested" }

\* C9: an unrecognized table kind, ri on a K table, a field that is not
\* found and an empty antenna selection all end the run with a non-zero
\* status, and none of them reaches the rendering.
C9_FatalConditionsExitNonZero ==
    /\ (pc = "exit" /\ exit.msg \in FatalMsgs) => exit.code # 0
    /\ (determine_table(mytab) = NotFound \/ (doplot = "ri" /\ IsDelayTable)
          \/ NoValidAntennaRequested)
         => pc \notin {"finalized", "laid_out", "rendered"}

\* the finalized value of each bound, in tenths
FinalBound(b) ==
    CASE b = "t0" -> xmin [] b = "t1" -> xmax
      [] b = "yu0" -> yumin [] b = "yu1" -> yumax
      [] b = "yl0" -> ylmin [] b = "yl1" -> ylmax

\* C10: every axis bound the caller gave a value for is finalized at exactly
\* that value.
C10_GivenBoundIsFinal ==
    pc \in {"finalized", "laid_out"} =>
        \A b \in Bounds : overrides[b].given => FinalBound(b) = SCALE * overrides[b].value

\* the step of PlotAntenna in which the rows of subtab are transformed,
\* plotted and folded
TransformStep == pc = "plot" /\ transforms' = transforms + 1

\* the rows of a query result that are not flagged
Unflagged(rows) == { i \in DOMAIN rows : ~rows[i].flag }

\* the value of a flagged row is an element of the series and is not masked
FlaggedValueAppears(series, rows) ==
    \E i \in DOMAIN series : i \in DOMAIN rows /\ rows[i].flag /\ ~series[i].masked

\* C11: for every supported pair of table kind and mode and every flag
\* pattern, the y1 and y2 series the transform produces have as many
\* elements as the antenna has unflagged samples, and no value of a flagged
\* sample appears in them.
C11_SeriesHoldUnflaggedOnly ==
    [][TransformStep =>
         LET y == Transform(determine_table(mytab), doplot, subtab, corr)
         IN /\ Len(y.y1) = Cardinality(Unflagged(subtab))
            /\ Len(y.y2) = Cardinality(Unflagged(subtab))
            /\ ~FlaggedValueAppears(y.y1, subtab)
            /\ ~FlaggedValueAppears(y.y2, subtab)]_vars

\* the TIME values a sample can have
SampleTimes == { 50 + 5 * (i - 1) : i \in 1..(MaxRows + 1) }

\* the flagged samples a row can hold
FlaggedRows ==
    { [t |-> t, a |-> q[1], b |-> q[2], flag |-> TRUE]
      : t \in SampleTimes, q \in Params }

\* the query results that differ from rows in flagged samples only: same
\* flags, same unflagged samples, TIME still ascending
FlaggedVariants(rows) ==
    { v \in { [i \in DOMAIN rows |-> IF rows[i].flag THEN alt[i] ELSE rows[i]]
              : alt \in [DOMAIN rows -> FlaggedRows] }
        : \A i \in DOMAIN v : i > 1 => v[i - 1].t < v[i].t }

\* the six extents after the rows of one antenna are folded into the
\* current ones
FoldedExtents(rows) ==
    LET y == Transform(determine_table(mytab), doplot, rows, corr)
    IN <<FoldMin(xmin, Times(rows)), FoldMax(xmax, Times(rows)),
         FoldMin(yumin, Unmasked(y.y1)), FoldMax(yumax, Unmasked(y.y1)),
         FoldMin(ylmin, Unmasked(y.y2)), FoldMax(ylmax, Unmasked(y.y2))>>

\* C12: the accumulated extents depend on unflagged samples only: folding an
\* antenna whose flagged samples have other values or other times leaves
\* all six extents as folding the antenna itself does, for every table kind.
C12_ExtentsIgnoreFlaggedSamples ==
    [][TransformStep =>
         \A v \in FlaggedVariants(subtab) :
            FoldedExtents(v) = <<xmin', xmax', yumin', yumax', ylmin', ylmax'>>]_vars

\* C13: after every select-all or batch checkbox event, each data glyph of
\* both panels is visible exactly when the checkbox of the batch that holds
\* its antenna is active.
C13_GlyphsFollowTheirCheckbox ==
    lastEvent.type \in {"ant_select", "batch_select"} =>
        \A b \in 0..(NumBoxes - 1) : \A r \in InBatch(b) :
            p1[r] = BoxActive(b) /\ p2[r] = BoxActive(b)

\* C14: after the validation of a list of antenna IDs given by the caller,
\* every ID left in the selection is an antenna of the table, so that none
\* that the table lacks reaches the per-antenna loop.
C14_ValidatedIdsArePresent ==
    (pc \in {"loop", "plot"} /\ opt_plotants[1] # -1) =>
        \A i \in DOMAIN plotants : plotants[i] \in ants

\* C15: in the initial state and after any sequence of select-all, batch
\* checkbox, error bar and legend mode events, the upper panel's and the
\* lower panel's data glyph of every antenna have the same visibility.
C15_PanelsAgreePerAntenna ==
    /\ DOMAIN p1 = DOMAIN p2
    /\ \A r \in DOMAIN p1 : p1[r] = p2[r]

\* a batch checkbox event has left shown and hidden antennas side by side
C15_Witness ==
    /\ pc = "rendered"
    /\ lastEvent.type = "batch_select"
    /\ \E r \in DOMAIN p1 : p1[r] /\ p2[r]
    /\ \E r \in DOMAIN p1 : ~p1[r] /\ ~p2[r]

\* the step of Finalize in which no axis option is given
PadStep ==
    /\ pc = "loop" /\ pc' = "finalized"
    /\ \A b \in Bounds : ~overrides'[b].given

\* C16: with no axis option given and at least one sample folded, the padded
\* range of each y panel contains every folded value of the panel: the
\* padded minimum is at most the observed minimum and the padded maximum at
\* least the observed maximum, whatever their signs (values in tenths).
C16_PaddedRangeContainsData ==
    [][PadStep =>
         /\ (yumin <= yumax) =>
               (yumin' <= SCALE * yumin /\ yumax' >= SCALE * yumax)
         /\ (ylmin <= ylmax) =>
               (ylmin' <= SCALE * ylmin /\ ylmax' >= SCALE * ylmax)]_vars

====
